---- MODULE Spec2Model ----
(***************************************************************************)
(* AuthenticationManager of flask_auth.py: the users and sessions tables,  *)
(* the clock, and one action per public method.  Every method runs to      *)
(* completion against the one connection (no interleaving in Spec).        *)
(* RegisterRace and LoginRace run two calls statement by statement.        *)
(*                                                                         *)
(* Conventions                                                             *)
(*   - a table is the set of its rows, a row is a record;                  *)
(*   - Python's "value or None" is a sequence of length <= 1: <<>> is      *)
(*     None, <<v>> is v;                                                   *)
(*   - strings that are hashed are sequences of characters; a sha256       *)
(*     hexdigest is the record [sha256 |-> bytes] of the bytes fed to it   *)
(*     (an ideal, collision-free digest);                                  *)
(*   - uuid4() values are positive integers; 0 is a string that is no      *)
(*     uuid the program ever generated;                                    *)
(*   - time is in whole seconds, as int(time.time()).                      *)
(***************************************************************************)
EXTENDS Integers, Sequences, FiniteSets, TLC

VARIABLES
    users,      \* table users: rows [id, username, hash, salt, groups]
    sessions,   \* table sessions: rows [id, token, expiry]
    config,     \* self.config: <<>> (None) or <<[expiry |-> d]>>
    now,        \* the wall clock, whole seconds
    nextTok,    \* number of the next uuid4() session token
    issued,     \* history: the [token, id] pairs inserted by login calls
    last,       \* the call that produced this state: [op, args, exc, ret],
                \* its name, its arguments (kept for get_user and
                \* change_password), the exception it raised ("none": it
                \* returned) and the value it returned
    procs       \* the calls in progress when calls interleave: for each
                \* caller its position and local variables (<<>> in Spec,
                \* where every call is one step)

vars == <<users, sessions, config, now, nextTok, issued, last, procs>>

----------------------------------------------------------------------------
(* Bounds of the model *)

MaxTime == 2        \* the clock stops here
MaxTokens == 2      \* session tokens generated in one behaviour

(* Program constant: timedelta(days=30), in seconds *)
DefaultExpiry == 2592000

(* Inputs *)
Usernames == {"u", "v"}
Passwords == {<<"o">>, <<"o", "n">>}
\* the group list each username is registered with
GroupsOf == "u" :> <<>> @@ "v" :> <<"staff", "admin">>
Salts == {<<"x">>, <<"y">>}             \* the 64 random characters, shortened
Durations == {1}                        \* expiry arguments, seconds
Configs == {<<>>, <<[expiry |-> 1]>>}   \* config=None or {"expiry": 1 s}
Cookies == {<<>>} \cup {<<t>> : t \in 0 .. MaxTokens}

----------------------------------------------------------------------------
(* Helpers *)

None == <<>>
Some(v) == <<v>>

_sha256hash(data, salt) == [sha256 |-> data \o salt]

\* uuid4() for a user id.  The value is fresh and otherwise immaterial, so
\* the model names it canonically: the k-th row inserted for a username gets
\* UidBase[username] + k * Cardinality(Usernames), which no other row has
\* (rows are never deleted).
UidBase == "u" :> 1 @@ "v" :> 2
NewUid(username) ==
    UidBase[username]
        + Cardinality(Usernames) * Cardinality({r \in users : r.username = username})

\* uid arguments: the ids the callers can know, and 0, the id of no user
Uids == {0} \cup {r.id : r \in users}

UsersByName(username) == {r \in users : r.username = username}
UsersById(uid) == {r \in users : r.id = uid}
SessionsByToken(token) == {s \in sessions : s.token = token}

\* Faulty variants of the DELETE: WHERE token=uid, and no WHERE clause
DeleteSessions_by_token(sess, uid) == {s \in sess : s.token # uid}
DeleteSessions_all(sess, uid) == {}
\* DELETE FROM sessions WHERE id=uid
DeleteSessions(sess, uid) == {s \in sess : s.id # uid}

\* INSERT INTO sessions of create_session_token
InsertSession(sess, uid, token, expiry) ==
    sess \cup {[id |-> uid, token |-> token, expiry |-> now + expiry]}

\* Faulty variant of the expiry test: <= in place of <
Expired_at(session, t) == session.expiry <= t
\* the expiry test of get_user
Expired(session, t) == session.expiry < t

\* a call that raised nothing and returned None
NoCall == [op |-> "init", args |-> <<>>, exc |-> "none", ret |-> <<>>]

----------------------------------------------------------------------------
Init ==
    /\ users = {}
    /\ sessions = {}
    /\ config \in Configs
    /\ now = 0
    /\ nextTok = 1
    /\ issued = {}
    /\ last = NoCall
    /\ procs = <<>>

(* time passes between calls *)
Tick ==
    /\ now < MaxTime
    /\ now' = now + 1
    /\ last' = [NoCall EXCEPT !.op = "tick"]
    /\ UNCHANGED <<users, sessions, config, nextTok, issued>>

\* Faulty variant of the existence check: the result is never tested
register_taken_unchecked(username) == FALSE
\* the existence check of register: SELECT ... WHERE username, fetchone()
register_taken(username) == UsersByName(username) # {}

(* register(username, password, groups); salt is the secrets.choice draw *)
register(username, password, groups) ==
    LET call == [NoCall EXCEPT !.op = "register"]
    IN  /\ IF register_taken(username)
           THEN /\ last' = [call EXCEPT !.exc = "UserAlreadyExists"]
                /\ UNCHANGED users
           ELSE /\ \E salt \in Salts :
                     users' = users \cup
                       {[id |-> NewUid(username), username |-> username,
                         hash |-> _sha256hash(password, salt),
                         salt |-> salt, groups |-> groups]}
                /\ last' = call
        /\ UNCHANGED <<sessions, config, now, nextTok, issued>>

\* the cookie create_session's set_cookie call describes for a token and an
\* expiration: name "auth", secure and httponly
AuthCookie(token, expires) ==
    [name |-> "auth", value |-> token, expires |-> expires,
     secure |-> TRUE, httponly |-> TRUE]

\* what create_session does after create_session_token returned: the
\* set_cookie call names expire_date, which create_session never binds
create_session_exc == "NameError"

(* create_session_token(uid, expiry), called directly *)
create_session_token(uid, expiry) ==
    /\ nextTok <= MaxTokens
    /\ sessions' = InsertSession(sessions, uid, nextTok, expiry)
    /\ nextTok' = nextTok + 1
    /\ last' = [NoCall EXCEPT !.op = "create_session_token",
                              !.ret = Some(nextTok)]
    /\ UNCHANGED <<users, config, now, issued>>

(* create_session(uid, response, expiry), called directly *)
create_session(uid, expiry) ==
    /\ nextTok <= MaxTokens
    /\ sessions' = InsertSession(sessions, uid, nextTok, expiry)
    /\ nextTok' = nextTok + 1
    /\ last' = [NoCall EXCEPT !.op = "create_session",
                              !.exc = create_session_exc]
    /\ UNCHANGED <<users, config, now, issued>>

\* the expiry login passes on: config["expiry"] if config is truthy
LoginExpiry == IF config # None THEN config[1].expiry ELSE DefaultExpiry

\* Faulty variant of the credential check: the AuthenticationFailure is
\* built but not raised
login_rejects_unraised(password, user) == FALSE
\* the credential check of login: the digest of the password with the
\* stored salt (user[3]) differs from the stored hash (user[2])
login_rejects(password, user) == _sha256hash(password, user.salt) # user.hash

\* how login ends for the row it fetched: the credential failure, or
\* whatever create_session ends with
login_exc(password, user) ==
    IF login_rejects(password, user) THEN "AuthenticationFailure"
    ELSE create_session_exc

(* login(username, password, response) *)
login(username, password) ==
    LET call == [NoCall EXCEPT !.op = "login"]
    IN  IF UsersByName(username) = {}
        THEN /\ last' = [call EXCEPT !.exc = "AuthenticationFailure"]
             /\ UNCHANGED <<users, sessions, config, now, nextTok, issued>>
        ELSE \E user \in UsersByName(username) :       \* cur.fetchone()
               IF login_rejects(password, user)
               THEN /\ last' = [call EXCEPT !.exc = login_exc(password, user)]
                    /\ UNCHANGED <<users, sessions, config, now, nextTok, issued>>
               ELSE /\ nextTok <= MaxTokens
                    /\ sessions' = InsertSession(DeleteSessions(sessions, user.id),
                                                 user.id, nextTok, LoginExpiry)
                    /\ nextTok' = nextTok + 1
                    /\ issued' = issued \cup {[token |-> nextTok, id |-> user.id]}
                    /\ last' = [call EXCEPT !.exc = login_exc(password, user)]
                    /\ UNCHANGED <<users, config, now>>

\* the value get_user returns for a cookie, in the tables sess, usrs at time t
get_user_ret(cookie, sess, usrs, t) ==
    IF cookie = None
    THEN None
    ELSE LET rows == {s \in sess : s.token = cookie[1]}
         IN  IF rows = {}
             THEN None
             ELSE LET session == CHOOSE s \in rows : TRUE
                      found == {r \in usrs : r.id = session.id}
                  IN  IF Expired(session, t)
                      THEN None
                      ELSE IF found = {} THEN None
                           ELSE Some(CHOOSE r \in found : TRUE)

\* Faulty variant of get_user: a lookup renews the row (sliding expiry)
get_user_sessions_renew(cookie, sess) ==
    {IF cookie = Some(s.token) THEN [s EXCEPT !.expiry = now + 1] ELSE s :
       s \in sess}
\* Faulty variant of get_user: it deletes the expired row it was asked for
get_user_sessions_purge(cookie, sess) ==
    {s \in sess : ~(cookie = Some(s.token) /\ s.expiry < now)}
\* the sessions table get_user leaves behind: it only reads
get_user_sessions(cookie, sess) == sess

(* get_user() with the request's auth cookie *)
get_user(cookie) ==
    /\ last' = [NoCall EXCEPT !.op = "get_user", !.args = <<cookie>>,
                              !.ret = get_user_ret(cookie, sessions, users, now)]
    /\ sessions' = get_user_sessions(cookie, sessions)
    /\ UNCHANGED <<users, config, now, nextTok, issued>>

\* Faulty variant of get_groups: the users query has no WHERE clause
get_groups_out_any(cookie, sess, usrs) ==
    IF cookie = None
    THEN [exc |-> "none", ret |-> None]
    ELSE LET rows == {s \in sess : s.token = cookie[1]}
         IN  IF rows = {} \/ usrs = {}
             THEN [exc |-> "TypeError", ret |-> None]
             ELSE [exc |-> "none",
                   ret |-> Some((CHOOSE r \in usrs : \A q \in usrs : r.id <= q.id).groups)]
\* the outcome of get_groups for a cookie: exception and returned value
get_groups_out(cookie, sess, usrs) ==
    IF cookie = None
    THEN [exc |-> "none", ret |-> None]
    ELSE LET rows == {s \in sess : s.token = cookie[1]}
         IN  IF rows = {}
             THEN [exc |-> "TypeError", ret |-> None]   \* None[0]
             ELSE LET uid == (CHOOSE s \in rows : TRUE).id
                      found == {r \in usrs : r.id = uid}
                  IN  IF found = {}
                      THEN [exc |-> "TypeError", ret |-> None]
                      ELSE [exc |-> "none",
                            ret |-> Some((CHOOSE r \in found : TRUE).groups)]

(* get_groups() with the request's auth cookie *)
get_groups(cookie) ==
    LET out == get_groups_out(cookie, sessions, users)
    IN  /\ last' = [NoCall EXCEPT !.op = "get_groups",
                                  !.exc = out.exc, !.ret = out.ret]
        /\ UNCHANGED <<users, sessions, config, now, nextTok, issued>>

\* errors.auth.generic.PasswordValidationError, the password-validation
\* error change_password raises
PasswordValidationError == "PasswordValidationError"

\* Faulty variant of the old-password check: the result is never tested
change_password_rejects_unchecked(old_password, user) == FALSE
\* the old-password check of change_password: the digest of old_password
\* with the stored salt differs from the stored hash
change_password_rejects(old_password, user) ==
    _sha256hash(old_password, user.salt) # user.hash

(* change_password(uid, old_password, new_password); salt is the new draw *)
change_password(uid, old_password, new_password) ==
    LET call == [NoCall EXCEPT !.op = "change_password",
                               !.args = <<uid, old_password, new_password>>]
    IN  IF UsersById(uid) = {}
        THEN /\ last' = [call EXCEPT !.exc = "TypeError"]   \* unpacking None
             /\ UNCHANGED <<users, sessions, config, now, nextTok, issued>>
        ELSE LET user == CHOOSE r \in UsersById(uid) : TRUE
             IN  IF change_password_rejects(old_password, user)
                 THEN /\ last' = [call EXCEPT !.exc = PasswordValidationError]
                      /\ UNCHANGED <<users, sessions, config, now, nextTok, issued>>
                 ELSE /\ \E salt \in Salts :
                           users' = (users \ {user}) \cup
                             {[user EXCEPT
                                 !.hash = _sha256hash(new_password, salt),
                                 !.salt = salt]}
                      /\ sessions' = DeleteSessions(sessions, uid)
                      /\ last' = call
                      /\ UNCHANGED <<config, now, nextTok, issued>>

Next ==
    \/ Tick /\ UNCHANGED procs
    \/ \E u \in Usernames, p \in Passwords :
          register(u, p, GroupsOf[u]) /\ UNCHANGED procs
    \/ \E u \in Usernames, p \in Passwords : login(u, p) /\ UNCHANGED procs
    \/ \E uid \in Uids, d \in Durations :
          create_session_token(uid, d) /\ UNCHANGED procs
    \/ \E uid \in Uids, d \in Durations :
          create_session(uid, d) /\ UNCHANGED procs
    \/ \E c \in Cookies : get_user(c) /\ UNCHANGED procs
    \/ \E c \in Cookies : get_groups(c) /\ UNCHANGED procs
    \/ \E uid \in Uids, o \in Passwords, n \in Passwords :
          change_password(uid, o, n) /\ UNCHANGED procs

Spec == Init /\ [][Next]_vars

(* Callers that create sessions through login only: create_session_token
   and create_session are never called directly *)
NextLoginOnly ==
    \/ Tick /\ UNCHANGED procs
    \/ \E u \in Usernames, p \in Passwords :
          register(u, p, GroupsOf[u]) /\ UNCHANGED procs
    \/ \E u \in Usernames, p \in Passwords : login(u, p) /\ UNCHANGED procs
    \/ \E c \in Cookies : get_user(c) /\ UNCHANGED procs
    \/ \E c \in Cookies : get_groups(c) /\ UNCHANGED procs
    \/ \E uid \in Uids, o \in Passwords, n \in Passwords :
          change_password(uid, o, n) /\ UNCHANGED procs

SpecLoginOnly == Init /\ [][NextLoginOnly]_vars

----------------------------------------------------------------------------
(* RegisterRace: two register calls run statement by statement against the
   same tables.  procs[c] is caller c's position (pc) with its arguments,
   the salt it drew (lines 96-99) and the exception it ended with. *)

RegCallers == {1, 2}

InitRegisterRace ==
    /\ users = {}
    /\ sessions = {}
    /\ config \in Configs
    /\ now = 0
    /\ nextTok = 1
    /\ issued = {}
    /\ last = NoCall
    /\ procs \in [RegCallers ->
                   [pc : {"select"}, username : Usernames, password : Passwords,
                    salt : Salts, exc : {"none"}]]

(* the existence query of register and the test of its result *)
register_select(c) ==
    /\ procs[c].pc = "select"
    /\ procs' = [procs EXCEPT ![c] =
                   IF register_taken(procs[c].username)
                   THEN [@ EXCEPT !.pc = "done", !.exc = "UserAlreadyExists"]
                   ELSE [@ EXCEPT !.pc = "insert"]]
    /\ UNCHANGED <<users, sessions, config, now, nextTok, issued, last>>

\* Faulty variant of the insert: an INSERT that a unique constraint on
\* username refuses
register_insert_unique(c) ==
    /\ procs[c].pc = "insert"
    /\ IF register_taken(procs[c].username)
       THEN /\ procs' = [procs EXCEPT ![c] =
                           [@ EXCEPT !.pc = "done", !.exc = "UniqueViolation"]]
            /\ UNCHANGED users
       ELSE /\ users' = users \cup
                  {[id |-> NewUid(procs[c].username),
                    username |-> procs[c].username,
                    hash |-> _sha256hash(procs[c].password, procs[c].salt),
                    salt |-> procs[c].salt,
                    groups |-> GroupsOf[procs[c].username]]}
            /\ procs' = [procs EXCEPT ![c] = [@ EXCEPT !.pc = "done"]]
    /\ UNCHANGED <<sessions, config, now, nextTok, issued, last>>
(* uuid4() and the INSERT INTO users of register *)
register_insert(c) ==
    /\ procs[c].pc = "insert"
    /\ users' = users \cup
          {[id |-> NewUid(procs[c].username),
            username |-> procs[c].username,
            hash |-> _sha256hash(procs[c].password, procs[c].salt),
            salt |-> procs[c].salt,
            groups |-> GroupsOf[procs[c].username]]}
    /\ procs' = [procs EXCEPT ![c] = [@ EXCEPT !.pc = "done"]]
    /\ UNCHANGED <<sessions, config, now, nextTok, issued, last>>

NextRegisterRace ==
    \/ \E c \in RegCallers : register_select(c)
    \/ \E c \in RegCallers : register_insert(c)

SpecRegisterRace == InitRegisterRace /\ [][NextRegisterRace]_vars

----------------------------------------------------------------------------
(* LoginRace: a caller of login and a caller of change_password run their
   calls statement by statement against the same tables, call after call.
   procs.login and procs.change_password hold each caller's position (pc,
   "idle" between calls), its local variables and the exception its last
   call ended with; procs.verified is history: for each token a login
   inserted, the stored hash that login compared the password with. *)

\* the row register("u", "o", []) inserted with the salt "x"
RaceUser ==
    [id |-> UidBase["u"], username |-> "u",
     hash |-> _sha256hash(<<"o">>, <<"x">>), salt |-> <<"x">>,
     groups |-> GroupsOf["u"]]

InitLoginRace ==
    /\ users = {RaceUser}
    /\ sessions = {}
    /\ config \in Configs
    /\ now = 0
    /\ nextTok = 1
    /\ issued = {}
    /\ last = NoCall
    /\ procs = [login |-> [pc |-> "idle", user |-> None, exc |-> "none"],
                change_password |->
                    [pc |-> "idle", uid |-> 0, phash |-> None, salt |-> None,
                     exc |-> "none"],
                verified |-> {}]

(* login, first statements: the users query, fetchone() and the two tests *)
login_select(username, password) ==
    /\ procs.login.pc = "idle"
    /\ IF UsersByName(username) = {}
       THEN procs' = [procs EXCEPT !.login =
                        [pc |-> "idle", user |-> None,
                         exc |-> "AuthenticationFailure"]]
       ELSE \E user \in UsersByName(username) :
              procs' = [procs EXCEPT !.login =
                          IF login_rejects(password, user)
                          THEN [pc |-> "idle", user |-> None,
                                exc |-> login_exc(password, user)]
                          ELSE [pc |-> "delete", user |-> Some(user),
                                exc |-> "none"]]
    /\ UNCHANGED <<users, sessions, config, now, nextTok, issued, last>>

(* login, next statement: DELETE FROM sessions WHERE id=user[0] *)
login_delete ==
    /\ procs.login.pc = "delete"
    /\ sessions' = DeleteSessions(sessions, procs.login.user[1].id)
    /\ procs' = [procs EXCEPT !.login.pc = "insert"]
    /\ UNCHANGED <<users, config, now, nextTok, issued, last>>

(* login, last statement: create_session, that is the INSERT of
   create_session_token and then the NameError *)
login_insert ==
    /\ procs.login.pc = "insert"
    /\ nextTok <= MaxTokens
    /\ LET user == procs.login.user[1]
       IN  /\ sessions' = InsertSession(sessions, user.id, nextTok, LoginExpiry)
           /\ issued' = issued \cup {[token |-> nextTok, id |-> user.id]}
           /\ procs' = [procs EXCEPT
                          !.login = [pc |-> "idle", user |-> None,
                                     exc |-> create_session_exc],
                          !.verified = @ \cup {[token |-> nextTok,
                                                hash |-> user.hash]}]
    /\ nextTok' = nextTok + 1
    /\ UNCHANGED <<users, config, now, last>>

(* change_password, first statements: the users query, the unpacking of
   fetchone(), the test, the new salt and the new hash *)
change_password_select(uid, old_password, new_password) ==
    /\ procs.change_password.pc = "idle"
    /\ IF UsersById(uid) = {}
       THEN procs' = [procs EXCEPT !.change_password =
                        [pc |-> "idle", uid |-> uid, phash |-> None,
                         salt |-> None, exc |-> "TypeError"]]
       ELSE LET user == CHOOSE r \in UsersById(uid) : TRUE
            IN  IF change_password_rejects(old_password, user)
                THEN procs' = [procs EXCEPT !.change_password =
                                 [pc |-> "idle", uid |-> uid, phash |-> None,
                                  salt |-> None,
                                  exc |-> PasswordValidationError]]
                ELSE \E salt \in Salts :
                       procs' = [procs EXCEPT !.change_password =
                                   [pc |-> "update", uid |-> uid,
                                    phash |-> Some(_sha256hash(new_password, salt)),
                                    salt |-> Some(salt), exc |-> "none"]]
    /\ UNCHANGED <<users, sessions, config, now, nextTok, issued, last>>

(* change_password, next statement: UPDATE users SET hash, salt WHERE id *)
change_password_update ==
    /\ procs.change_password.pc = "update"
    /\ users' = {IF r.id = procs.change_password.uid
                 THEN [r EXCEPT !.hash = procs.change_password.phash[1],
                                !.salt = procs.change_password.salt[1]]
                 ELSE r : r \in users}
    /\ procs' = [procs EXCEPT !.change_password.pc = "delete"]
    /\ UNCHANGED <<sessions, config, now, nextTok, issued, last>>

(* change_password, last statement: DELETE FROM sessions WHERE id=uid *)
change_password_delete ==
    /\ procs.change_password.pc = "delete"
    /\ sessions' = DeleteSessions(sessions, procs.change_password.uid)
    /\ procs' = [procs EXCEPT !.change_password =
                   [pc |-> "idle", uid |-> @.uid, phash |-> None,
                    salt |-> None, exc |-> "none"]]
    /\ UNCHANGED <<users, config, now, nextTok, issued, last>>

NextLoginRace ==
    \/ \E u \in Usernames, p \in Passwords : login_select(u, p)
    \/ login_delete
    \/ login_insert
    \/ \E uid \in Uids, o \in Passwords, n \in Passwords :
          change_password_select(uid, o, n)
    \/ change_password_update
    \/ change_password_delete

SpecLoginRace == InitLoginRace /\ [][NextLoginRace]_vars

----------------------------------------------------------------------------
(* Properties.  A step's call is named by last'.op; the action formulas
   below test it first, so that only the steps of the call a property is
   about are compared with that call's action. *)

\* what get_user returns for a cookie in the current state
Resolve(cookie) == get_user_ret(cookie, sessions, users, now)

\* the digest of password p with r's stored salt is r's stored hash
Matches(r, p) == r.hash = _sha256hash(p, r.salt)

\* C1: a login with the username and password of a registered user raises
\* nothing, and get_user() with the token it issued returns that user's row.
C1_LoginAfterRegister ==
    [][last'.op = "login" => \A u \in Usernames, p \in Passwords :
         (login(u, p) /\ \E r \in users : r.username = u /\ Matches(r, p))
         => /\ last'.exc = "none"
            /\ \E r \in users :
                  /\ r.username = u
                  /\ get_user_ret(Some(nextTok), sessions', users', now') = Some(r)
      ]_vars

\* C2: a login for a username with no row, or with a password that does not
\* hash (with the stored salt) to the stored hash, raises
\* AuthenticationFailure and leaves both tables as they were.
C2_FailedLoginChangesNothing ==
    [][last'.op = "login" => \A u \in Usernames, p \in Passwords :
         (login(u, p) /\ \A r \in users : r.username = u => ~Matches(r, p))
         => /\ last'.exc = "AuthenticationFailure"
            /\ sessions' = sessions
            /\ users' = users
      ]_vars

\* a login was refused although every username is registered (so the
\* password was wrong) and every user has a session row
C2_Witness ==
    /\ last.op = "login"
    /\ last.exc = "AuthenticationFailure"
    /\ \A u \in Usernames : \E r \in users : r.username = u
    /\ \A r \in users : \E s \in sessions : s.id = r.id

\* C3: register for a username that has a row raises UserAlreadyExists and
\* leaves both tables as they were, the first registration's row included.
C3_DuplicateRegisterChangesNothing ==
    [][last'.op = "register" =>
       \A u \in Usernames, p \in Passwords :
         (register(u, p, GroupsOf[u]) /\ \E r \in users : r.username = u)
         => /\ last'.exc = "UserAlreadyExists"
            /\ users' = users
            /\ sessions' = sessions
      ]_vars

\* a register call was refused
C3_Witness ==
    /\ last.op = "register"
    /\ last.exc = "UserAlreadyExists"
    /\ users # {}

C5_PasswordChangeLogsOut ==
    [][(last'.op = "change_password" /\ last'.exc = "none")
       => LET uid == last'.args[1]
          IN  /\ \A x \in sessions' : x.id # uid
              /\ \A c \in Cookies : \A r \in users' :
                    get_user_ret(c, sessions', users', now') = Some(r)
                    => r.id # uid
              /\ {x \in sessions' : x.id # uid} = {x \in sessions : x.id # uid}
      ]_vars

\* a password change has just removed the session row of the latest login
\* (no token was generated since), and another session row is still there
C5_Witness ==
    /\ last.op = "change_password"
    /\ last.exc = "none"
    /\ \E a \in issued :
          /\ a.token = nextTok - 1
          /\ SessionsByToken(a.token) = {}
          /\ \E x \in sessions : x.id # a.id /\ x.id # 0

\* C6: after a change_password(uid, old, new) that succeeds with old # new,
\* a login of that user with old ends in AuthenticationFailure and a login
\* with new raises nothing.
C6_LoginAfterPasswordChange ==
    [][(/\ last.op = "change_password" /\ last.exc = "none"
        /\ last.args[2] # last.args[3]
        /\ last'.op = "login")
       => \A u \in Usernames :
             (\E r \in users : r.id = last.args[1] /\ r.username = u)
             => /\ login(u, last.args[2]) => last'.exc = "AuthenticationFailure"
                /\ login(u, last.args[3]) => last'.exc = "none"
      ]_vars

\* C7 as stated: get_user returns a user row only for a session row whose
\* expiry is strictly greater than the current time.
C7_StrictExpiry ==
    (last.op = "get_user" /\ last.ret # None)
    => \E s \in sessions : last.args[1] = Some(s.token) /\ s.expiry > now

\* C7 as amended: get_user returns a user row exactly when a session row
\* with the presented token exists, its expiry is not before the current
\* time (expiry >= now) and the session's id has a user row; it returns that
\* row.
C7_ExpiryNotBefore ==
    last.op = "get_user"
    => LET live == {s \in sessions : /\ last.args[1] = Some(s.token)
                                     /\ s.expiry >= now
                                     /\ \E r \in users : r.id = s.id}
       IN  /\ last.ret # None <=> live # {}
           /\ last.ret # None
              => \E s \in live : last.ret[1] \in users /\ last.ret[1].id = s.id

\* get_user returned a user row for a session whose expiry is the current
\* second
C7_Witness ==
    /\ last.op = "get_user"
    /\ last.ret # None
    /\ \E s \in sessions : last.args[1] = Some(s.token) /\ s.expiry = now

\* C8: get_user presented with the token of a session row whose expiry is in
\* the past returns None and leaves the sessions table, that row included,
\* as it was.
C8_ExpiredRowIsKept ==
    [][(/\ last'.op = "get_user"
        /\ \E s \in sessions : last'.args[1] = Some(s.token) /\ s.expiry < now)
       => /\ last'.ret = None
          /\ sessions' = sessions
          /\ users' = users
      ]_vars

\* get_user has returned None for the token of an expired row still stored
C8_Witness ==
    /\ last.op = "get_user"
    /\ last.ret = None
    /\ \E s \in sessions : last.args[1] = Some(s.token) /\ s.expiry < now

\* C9: get_groups with a string cookie that matches no session row raises
\* nothing and returns None, as get_user does.
C9_GroupsOfUnknownToken ==
    [][last'.op = "get_groups" => \A c \in Cookies :
         (get_groups(c) /\ c # None /\ \A s \in sessions : c # Some(s.token))
         => /\ last'.exc = "none"
            /\ last'.ret = None
            /\ get_user_ret(c, sessions, users, now) = None
      ]_vars

\* C10: get_groups with the token of a session row whose expiry is in the
\* past returns no group list.
C10_GroupsOfExpiredToken ==
    [][last'.op = "get_groups" => \A c \in Cookies :
         (get_groups(c) /\ \E s \in sessions : c = Some(s.token) /\ s.expiry < now)
         => last'.ret = None
      ]_vars

\* C11: a login that inserts a session row returns (raises nothing) a
\* response carrying the auth cookie whose value is that row's token and
\* whose expiration is that row's expiry, secure and http-only; no login
\* leaves a new row whose token is not on the returned response.
C11_CookieCarriesInsertedToken ==
    [][last'.op = "login"
       => \A s \in sessions' \ sessions :
             /\ last'.exc = "none"
             /\ last'.ret = Some(AuthCookie(s.token, s.expiry))
      ]_vars

\* C12: get_groups presented with the token of a session row that is not
\* expired and belongs to a user returns exactly the group list that user's
\* username was registered with, whatever logins and password changes
\* happened since.
C12_GroupsAsRegistered ==
    [][last'.op = "get_groups" => \A c \in Cookies :
         get_groups(c)
         => \A s \in sessions, r \in users :
               (c = Some(s.token) /\ s.expiry >= now /\ r.id = s.id)
               => /\ last'.exc = "none"
                  /\ last'.ret = Some(GroupsOf[r.username])
      ]_vars

\* get_groups has returned the two groups of a user who has logged in and
\* holds a session row that is not expired, while another user is registered
C12_Witness ==
    /\ last.op = "get_groups"
    /\ last.ret = Some(<<"staff", "admin">>)
    /\ Cardinality(users) = 2
    /\ \E a \in issued, s \in sessions :
          /\ a.id = s.id /\ s.expiry >= now
          /\ \E r \in users : r.id = s.id /\ r.groups = <<"staff", "admin">>

\* C13: no two user rows have the same username.
C13_UsernameUnique ==
    \A r1 \in users, r2 \in users : r1.username = r2.username => r1 = r2

\* every username is registered and a further register call was refused
C13_Witness ==
    /\ last.op = "register"
    /\ last.exc = "UserAlreadyExists"
    /\ \A u \in Usernames : Cardinality(UsersByName(u)) = 1

\* C16: a change_password(uid, old, new) for a user whose stored hash is not
\* the digest of old with the stored salt raises the password-validation
\* error and leaves the users table (hash and salt included) and every
\* session row, those of uid included, as they were.
C16_WrongOldPasswordChangesNothing ==
    [][(/\ last'.op = "change_password"
        /\ \E r \in users : r.id = last'.args[1] /\ ~Matches(r, last'.args[2]))
       => /\ last'.exc = PasswordValidationError
          /\ users' = users
          /\ sessions' = sessions
      ]_vars

\* a change_password was refused with the password-validation error while
\* its user holds a session row
C16_Witness ==
    /\ last.op = "change_password"
    /\ last.exc = PasswordValidationError
    /\ \E r \in users, s \in sessions :
          r.id = last.args[1] /\ s.id = r.id /\ ~Matches(r, last.args[2])

\* C18: with the clock never going back, a generated token that get_user
\* resolves to no user in a state resolves to no user in the next state,
\* whatever call is made (so in every later state).
C18_InvalidationIsPermanent ==
    [][\A t \in 1 .. MaxTokens :
         (t < nextTok /\ Resolve(Some(t)) = None)
         => get_user_ret(Some(t), sessions', users', now') = None
      ]_vars

\* get_user has returned None for a token a login had inserted for a user:
\* either its row is gone (a later login or a password change deleted it),
\* or the row is stored and expired
C18_Witness ==
    /\ last.op = "get_user"
    /\ last.ret = None
    /\ \E a \in issued :
          /\ last.args[1] = Some(a.token)
          /\ UsersById(a.id) # {}
          /\ \/ SessionsByToken(a.token) = {}
             \/ \E x \in SessionsByToken(a.token) : x.expiry < now

\* C15: when only login creates sessions and calls do not interleave, a
\* user id has at most one session row, and right after a login that
\* inserted a row, that row (the latest token) is the one the user has.
C15_OneSessionPerUser ==
    /\ \A s1 \in sessions, s2 \in sessions : s1.id = s2.id => s1 = s2
    /\ (last.op = "login" /\ last.exc # "AuthenticationFailure")
       => \E a \in issued, s \in sessions :
             a.token = nextTok - 1 /\ s.token = a.token /\ s.id = a.id

\* a user's second login has just ended: the user has the row of the latest
\* token and the row of the earlier login is gone
C15_Witness ==
    /\ last.op = "login"
    /\ last.exc # "AuthenticationFailure"
    /\ \E a \in issued, b \in issued :
          /\ a.id = b.id /\ a.token < b.token /\ b.token = nextTok - 1
          /\ SessionsByToken(b.token) # {}
          /\ SessionsByToken(a.token) = {}

\* C14: a register call whose existence query found no row inserts its row
\* and raises nothing, whatever was inserted between its query and its
\* insert; so two interleaved calls for one username can both insert (the
\* state C14_Witness).
C14_CheckedCallInserts ==
    [][\A c \in RegCallers :
         (procs[c].pc = "insert" /\ procs'[c].pc = "done")
         => /\ procs'[c].exc = "none"
            /\ \E r \in users' \ users : r.username = procs[c].username
      ]_vars

\* both calls are over, neither raised, and two user rows share the
\* username both were called with
C14_Witness ==
    /\ \A c \in RegCallers : procs[c].pc = "done" /\ procs[c].exc = "none"
    /\ procs[1].username = procs[2].username
    /\ Cardinality(UsersByName(procs[1].username)) = 2

\* C17: when login and change_password interleave statement by statement,
\* in every state where no change_password is between its UPDATE and its
\* DELETE, every session row a login inserted is the row of a login that
\* compared its password with the hash now stored for the row's user.
C17_SessionsVerifiedAgainstStoredHash ==
    procs.change_password.pc # "delete"
    => \A s \in sessions, v \in procs.verified :
          v.token = s.token
          => \E r \in users : r.id = s.id /\ r.hash = v.hash

====
